---- MODULE Spec2Model ----
\* A model of kebechet's dependency-update manager (src/kebechet/update.py):
\* one run of UpdateManager.update against a remote repository and its
\* hosting service, the per-dependency loop of _do_update, and the pure
\* helpers the loop is built from.
EXTENDS Integers, Sequences, FiniteSets, TLC

\* ---------------------------------------------------------------- bounds

\* Runs of UpdateManager.update in one behaviour.
MaxRuns == 2
\* Changes from outside in one behaviour: commits to the default branch,
\* releases of packages, changes opened by users.
MaxEvents == 1
\* Length of the names and versions the pure helpers are applied to.
MaxLen == 2
\* Default-branch heads a sentinel issue lives through, and failing runs
\* that report to it.
MaxSha == 3
MaxCalls == 4
\* Lines of the requirements.txt the reader is applied to.
MaxLines == 2
\* Repository entries of a configuration file, and manager items of an entry.
MaxEntries == 2
MaxManagers == 2

\* --------------------------------------------------------------- strings
\* A Python str is a sequence of one-character strings; Python's None is
\* the empty sequence (no package name or version is the empty string).

None == << >>

Prefix == <<"k", "e", "b", "e", "c", "h", "e", "t", "-">>

MASTER == <<"m", "a", "s", "t", "e", "r">>

\* str(None), as an f-string formats it.
Format(v) == IF v = None THEN <<"N", "o", "n", "e">> ELSE v

\* str.startswith
startswith(s, p) == Len(s) >= Len(p) /\ SubSeq(s, 1, Len(p)) = p

\* The package names and versions of the modelled repository.
A == <<"a">>
B == <<"b">>
V1 == <<"1">>
V2 == <<"2">>
V3 == <<"3">>

Pkgs == {A, B}

\* v is a later release than w.
Newer(v, w) == \E i, j \in 1..3 : <<V1, V2, V3>>[i] = v /\ <<V1, V2, V3>>[j] = w /\ i > j

\* The versions the resolver may lock a package to.
Versions(p) == IF p = A THEN {V1, V2, V3} ELSE {V1, V2}

\* ------------------------------------------------------- pure functions

\* A mutant: the version is left out of the name.
BranchNameNoVersion(package_name, new_package_version) ==
    Prefix \o package_name

_construct_branch_name(package_name, new_package_version) ==
    Prefix \o package_name \o <<"-">> \o Format(new_package_version)

\* dict.get(package_name, {}).get('version') on a snapshot
GetVersion(snapshot, package_name) ==
    IF package_name \in DOMAIN snapshot
    THEN snapshot[package_name].version
    ELSE None

\* A mutant: a package missing from the new snapshot is dropped.
OutdatedDropMissing(old_direct_dependencies, new_direct_dependencies) ==
    LET changed(e) ==
            /\ e.name \in DOMAIN new_direct_dependencies
            /\ e.version # GetVersion(new_direct_dependencies, e.name)
        keep == SelectSeq(old_direct_dependencies, changed)
    IN  [i \in 1..Len(keep) |->
            [name |-> keep[i].name,
             dev |-> keep[i].dev,
             old_version |-> keep[i].version,
             new_version |-> GetVersion(new_direct_dependencies, keep[i].name)]]

\* old_direct_dependencies is a dict in insertion order: a sequence of
\* entries [name, version, dev] with distinct names. The result is the dict
\* `result`, in the order its keys were inserted.
_get_all_outdated(old_direct_dependencies, new_direct_dependencies) ==
    LET changed(e) ==
            e.version # GetVersion(new_direct_dependencies, e.name)
        keep == SelectSeq(old_direct_dependencies, changed)
    IN  [i \in 1..Len(keep) |->
            [name |-> keep[i].name,
             dev |-> keep[i].dev,
             old_version |-> keep[i].version,
             new_version |-> GetVersion(new_direct_dependencies, keep[i].name)]]

\* str.lower, over the letters of the modelled names.
lower(s) ==
    [i \in 1..Len(s) |-> IF s[i] = "A" THEN "a" ELSE IF s[i] = "B" THEN "b" ELSE s[i]]

\* str.strip: white space is taken off both ends.
RECURSIVE strip(_)
strip(s) ==
    IF s = << >> THEN s
    ELSE IF s[1] = " " THEN strip(Tail(s))
    ELSE IF s[Len(s)] = " " THEN strip(SubSeq(s, 1, Len(s) - 1))
    ELSE s

\* The first position at which sep occurs in s, or 0.
Find(s, sep) ==
    LET at == {i \in 1..(Len(s) - Len(sep) + 1) : SubSeq(s, i, i + Len(sep) - 1) = sep}
    IN  IF at = {} THEN 0 ELSE CHOOSE i \in at : \A j \in at : i <= j

\* str.split(sep, maxsplit=1): the list of one or two parts.
SplitOnce(s, sep) ==
    IF Find(s, sep) = 0 THEN <<s>>
    ELSE <<SubSeq(s, 1, Find(s, sep) - 1),
           SubSeq(s, Find(s, sep) + Len(sep), Len(s))>>

\* _RE_VERSION_DELIMITER.split(line)[0]: the text before the first of
\* ==, ===, <=, >=, ~=, !=, <, > and [.
BeforeVersionDelimiter(line) ==
    LET at == {i \in 1..Len(line) :
                  \/ line[i] \in {"<", ">", "["}
                  \/ /\ i < Len(line)
                     /\ SubSeq(line, i, i + 1) \in {<<"=", "=">>, <<"~", "=">>, <<"!", "=">>}}
    IN  IF at = {} THEN line
        ELSE SubSeq(line, 1, (CHOOSE i \in at : \A j \in at : i <= j) - 1)

\* result[key] = value on a dict in insertion order: a key the dict has
\* keeps its place.
SetItem(d, e) ==
    IF \E i \in 1..Len(d) : d[i].name = e.name
    THEN [i \in 1..Len(d) |-> IF d[i].name = e.name THEN e ELSE d[i]]
    ELSE Append(d, e)

\* _get_direct_dependencies on the parsed Pipfile: the keys of [packages]
\* and of [dev-packages], lower-cased.
_get_direct_dependencies(pipfile) ==
    [default |-> [i \in 1..Len(pipfile.packages) |-> lower(pipfile.packages[i])],
     develop |-> [i \in 1..Len(pipfile.dev) |-> lower(pipfile.dev[i])]]

\* _get_all_packages_versions on the parsed Pipfile.lock: `default` and
\* `develop` are its sections, lists of [name, version] with version
\* "==<version>"; the keys are lower-cased and dev is False for both.
RECURSIVE AllPackagesVersions(_, _)
AllPackagesVersions(items, result) ==
    IF items = << >> THEN result
    ELSE AllPackagesVersions(Tail(items),
             SetItem(result, [name |-> lower(items[1].name),
                              version |-> SubSeq(items[1].version, 3, Len(items[1].version)),
                              dev |-> FALSE]))

_get_all_packages_versions(lock) ==
    AllPackagesVersions(lock.default \o lock.develop, << >>)

\* _get_direct_dependencies_requirements on the lines of requirements.in.
_get_direct_dependencies_requirements(lines) ==
    {lower(BeforeVersionDelimiter(lines[i])) :
        i \in {j \in 1..Len(lines) : ~startswith(strip(lines[j]), <<"#">>)}}

\* _get_requirements_txt_dependencies on the lines of requirements.txt
\* (content.splitlines()): the dict in insertion order, or the exception.
RECURSIVE RequirementsTxt(_, _)
RequirementsTxt(lines, result) ==
    IF lines = << >> THEN [raised |-> "none", result |-> result]
    ELSE LET line == lines[1]
             package_and_version == SplitOnce(line, <<"=", "=">>)
         IN  IF \/ startswith(strip(line), <<"#">>)
                \/ startswith(strip(line), <<"-">>)
             THEN RequirementsTxt(Tail(lines), result)
             ELSE IF Len(package_and_version) # 2
             THEN [raised |-> "DependencyManagementError", result |-> << >>]
             ELSE RequirementsTxt(Tail(lines),
                      SetItem(result,
                              [name |-> package_and_version[1],
                               version |-> SplitOnce(package_and_version[2], <<" ">>)[1],
                               dev |-> FALSE]))

_get_requirements_txt_dependencies(lines) == RequirementsTxt(lines, << >>)

\* old_direct_dependencies_version of _do_update for requirements.in: the
\* entries of requirements.txt whose key is a direct dependency.
OldDirectRequirements(old_environment, direct_dependencies) ==
    SelectSeq(old_environment, LAMBDA e : e.name \in direct_dependencies)

\* ---------------------------------------------------------------- state

VARIABLES
    \* the remote repository and the hosting service
    branches,      \* remote branch name -> the commit at its tip
    pulls,         \* the open proposed changes: [number, branch, base]
    issues,        \* title of a sentinel issue -> how many issues with it are open
    nextNumber,    \* the number the next proposed change gets
    \* the repository's content and the resolver
    style,         \* "pipenv" (Pipfile), "requirements" (requirements.in), "none"
    hasLock,       \* Pipfile.lock / requirements.txt is present
    manifest,      \* the direct dependencies, in file order: [name, version, dev]
    latest,        \* package -> the version the resolver locks it to
    events,        \* changes from outside so far
    \* the run of UpdateManager.update
    pc,            \* "idle", "cloned", "loop" (the per-dependency loop), "done"
    runs,          \* runs started so far
    HEAD,          \* self.repo.head.commit of the clone
    localBranches, \* branches of the clone
    tree,          \* the uncommitted changes in the clone that the resolver made
                   \* for a delta: [file, by], by the package of the delta
    outdated,      \* the deltas of the run, in dict order
    idx,           \* position of the loop in outdated
    result,        \* the mapping _do_update builds: name -> <<old, new, number>>
    raised,        \* the exception update() ended with, or "none"
    flow,          \* the flow _do_update took: "initial-lock", "update-failed",
                   \* "relock", "loop", "no-management", or "none" so far
    \* what the run did (history of the run, cleared when a run starts)
    cloned,        \* the default-branch head the run cloned
    seen,          \* per delta: how it was classified and how it ended
    pushed,        \* the pushes of the run: [branch, commit, force]
    opened,        \* the proposed changes opened: [number, branch]
    comments,      \* the numbers of the changes commented on
    deleted,       \* the branches delete_branch was called on, in order
    listed,        \* the remote branches _delete_old_branches listed
    relocks,       \* calls of _relock_all
    faults,        \* the calls of the run that failed (resolver, git, hosting)
    fresh,         \* the last run reconciled every delta, and nothing changed since
    rerun,         \* the run repeats a fully reconciled run on an unchanged world
    retry,         \* the branches of the deltas whose update failed in the last
                   \* run, while nothing has changed since
    \* a pure helper applied to arguments of its own
    call,          \* the helper and its arguments
    ret,           \* what it returned
    \* a second run of UpdateManager.update on the same repository
    peer           \* its clone and its position, while the other run steps

world == <<branches, pulls, issues, nextNumber, style, hasLock, manifest, latest, events>>
run == <<pc, runs, HEAD, localBranches, tree, outdated, idx, result, raised, flow>>
history == <<cloned, seen, pushed, opened, comments, deleted, listed, relocks, faults, fresh, rerun, retry>>
pure == <<call, ret>>
vars == <<world, run, history, pure, peer>>

\* A commit is the default-branch commit it descends from and the commits
\* made on top of it, each labelled with the branch it was made for; its SHA
\* is the commit itself.
MasterCommit(n) == [base |-> n, commits |-> << >>]

head == branches[MASTER]

\* self.sha
sha == HEAD

\* ------------------------------------------------------ hosting service
\* source_management is not part of the sources at hand: its calls are
\* modelled from the hosting contract of the specification.

_ISSUE_UPDATE_ALL_NAME == "Failed to update dependencies to their latest version"
_ISSUE_INITIAL_LOCK_NAME == "Failed to perform initial lock of software stack"
_ISSUE_REPLICATE_ENV_NAME == "Failed to replicate environment for updates"
_ISSUE_NO_DEPENDENCY_NAME == "No dependency management found"

INITIAL_LOCK_BRANCH ==
    Prefix \o <<"i", "n", "i", "t", "i", "a", "l", "-", "l", "o", "c", "k">>
RELOCK_BRANCH ==
    Prefix \o <<"d", "e", "p", "e", "n", "d", "e", "n", "c", "y", "-", "r", "e", "l", "o", "c", "k">>

\* listOpenChanges(branchHeadFilter)
list_pull_requests(branch_name) == {pr \in pulls : pr.branch = branch_name}

\* createChange: the new change targets the default branch as it is now.
open_pull_request(ps, branch_name) ==
    ps \cup {[number |-> nextNumber, branch |-> branch_name, base |-> head]}

\* listBranches: the names of the remote branches
list_branches == DOMAIN branches

\* The titles of the four sentinel categories.
SentinelTitles ==
    {_ISSUE_UPDATE_ALL_NAME, _ISSUE_INITIAL_LOCK_NAME, _ISSUE_REPLICATE_ENV_NAME,
     _ISSUE_NO_DEPENDENCY_NAME}

\* closeIssue(title, closingComment)
close_issue_if_exists(is, title) == [is EXCEPT ![title] = 0]

\* openIssueIfAbsent(title, body, labels): a new issue unless one with the
\* title is open.
open_issue_if_not_exist(is, title) ==
    IF is[title] > 0 THEN is ELSE [is EXCEPT ![title] = 1]

\* A push to the source branch of open changes: the service records them
\* against the default branch as it is now.
Synchronize(ps, branch_name) ==
    {IF pr.branch = branch_name THEN [pr EXCEPT !.base = head] ELSE pr : pr \in ps}

\* The tip `to` descends from the tip `from` (a fast-forward).
IsAncestor(from, to) ==
    /\ from.base = to.base
    /\ Len(from.commits) <= Len(to.commits)
    /\ SubSeq(to.commits, 1, Len(from.commits)) = from.commits

\* A set as a sequence, in some order.
RECURSIVE SetToSeq(_)
SetToSeq(S) ==
    IF S = {} THEN << >>
    ELSE LET x == CHOOSE y \in S : TRUE IN <<x>> \o SetToSeq(S \ {x})

Range(s) == {s[i] : i \in 1..Len(s)}

Count(s, x) == Cardinality({i \in 1..Len(s) : s[i] = x})

\* ------------------------------------------------------------ the engine

\* A mutant: an existing change is never refreshed nor skipped, the update
\* is always required.
ShouldUpdateAlways(package_name, new_package_version) ==
    LET branch_name == _construct_branch_name(package_name, new_package_version)
        response == list_pull_requests(branch_name)
    IN  IF Cardinality(response) = 0
        THEN [raised |-> "none", pr_number |-> -1, should_update |-> TRUE]
        ELSE IF Cardinality(response) = 1
        THEN LET pr == CHOOSE r \in response : TRUE
             IN  [raised |-> "none", pr_number |-> pr.number, should_update |-> TRUE]
        ELSE [raised |-> "InternalError", pr_number |-> -1, should_update |-> FALSE]

\* A mutant: of several changes on one branch the first is picked.
ShouldUpdatePickFirst(package_name, new_package_version) ==
    LET branch_name == _construct_branch_name(package_name, new_package_version)
        response == list_pull_requests(branch_name)
    IN  IF Cardinality(response) = 0
        THEN [raised |-> "none", pr_number |-> -1, should_update |-> TRUE]
        ELSE LET pr == CHOOSE r \in response :
                           \A o \in response : r.number <= o.number
             IN  [raised |-> "none", pr_number |-> pr.number,
                  should_update |-> sha # pr.base]

\* The result (pr_number, should_update), or the exception raised.
_should_update(package_name, new_package_version) ==
    LET branch_name == _construct_branch_name(package_name, new_package_version)
        response == list_pull_requests(branch_name)
    IN  IF Cardinality(response) = 0
        THEN [raised |-> "none", pr_number |-> -1, should_update |-> TRUE]
        ELSE IF Cardinality(response) = 1
        THEN LET pr == CHOOSE r \in response : TRUE
             IN  [raised |-> "none", pr_number |-> pr.number,
                  should_update |-> sha # pr.base]
        ELSE [raised |-> "InternalError", pr_number |-> -1, should_update |-> FALSE]

\* What _git_push leaves behind: `ok` is FALSE when it raised. checkout -b
\* refuses a branch the clone already has; the commit is made on top of the
\* clone's HEAD, which then points at it; the push may fail (pushFails).
\* A push without force that is no fast-forward is rejected by the remote,
\* which GitPython reports in its return value, not by raising.
_git_push(branch_name, force_push, pushFails) ==
    LET commit == [base |-> HEAD.base, commits |-> Append(HEAD.commits, branch_name)]
        accepted == \/ force_push
                    \/ branch_name \notin DOMAIN branches
                    \/ IsAncestor(branches[branch_name], commit)
        unchanged == [ok |-> FALSE, HEAD |-> HEAD, localBranches |-> localBranches,
                      branches |-> branches, pulls |-> pulls, pushed |-> pushed]
    IN  IF branch_name \in localBranches THEN unchanged
        ELSE IF pushFails
        THEN [unchanged EXCEPT !.HEAD = commit,
                               !.localBranches = localBranches \cup {branch_name}]
        ELSE IF ~accepted
        THEN [unchanged EXCEPT !.ok = TRUE, !.HEAD = commit,
                               !.localBranches = localBranches \cup {branch_name}]
        ELSE [ok |-> TRUE, HEAD |-> commit,
              localBranches |-> localBranches \cup {branch_name},
              branches |-> [b \in DOMAIN branches \cup {branch_name} |->
                               IF b = branch_name THEN commit ELSE branches[b]],
              pulls |-> Synchronize(pulls, branch_name),
              pushed |-> pushed \cup {[branch |-> branch_name, commit |-> commit,
                                       force |-> force_push]}]

\* A mutant: the branches of this run's deltas are not spared.
DeleteAllPrefixed(outdated_) ==
    {b \in list_branches : startswith(b, Prefix)}

\* A mutant: only the branches pushed in this run are spared.
DeleteUnpushed(outdated_) ==
    {b \in list_branches : startswith(b, Prefix)} \ {p.branch : p \in pushed}

\* The branches _delete_old_branches calls delete_branch on.
_delete_old_branches(outdated_) ==
    LET listed_ == {b \in list_branches : startswith(b, Prefix)}
        active == {_construct_branch_name(outdated_[i].name, outdated_[i].new_version) :
                       i \in 1..Len(outdated_)}
    IN  listed_ \ active

\* ----------------------------------------------------------------- Init

EA == [name |-> A, version |-> V1, dev |-> FALSE]
EB == [name |-> B, version |-> V1, dev |-> FALSE]
EBdev == [name |-> B, version |-> V1, dev |-> TRUE]

\* The manifests of the modelled repository: Pipfile lists its packages
\* before its dev-packages.
Manifests == {<<EA, EBdev>>, <<EB, EA>>}

EmptyMap == [x \in {} |-> None]

NoCommit == MasterCommit(0)

NoCall == [f |-> "none"]

\* A run that has not cloned the repository yet.
NotStarted ==
    [pc |-> "idle", HEAD |-> NoCommit, localBranches |-> {}, tree |-> {},
     outdated |-> << >>,
     idx |-> 1, result |-> EmptyMap, raised |-> "none", flow |-> "none",
     seen |-> << >>]

InitRepository ==
    /\ branches = (MASTER :> MasterCommit(1))
    /\ pulls = {}
    /\ issues = [t \in SentinelTitles |-> 0]
    /\ nextNumber = 1
    /\ style \in {"pipenv", "requirements", "none"}
    /\ hasLock \in BOOLEAN
    /\ style = "none" => ~hasLock
    /\ manifest \in Manifests
    /\ latest \in [Pkgs -> {V1, V2}]
    /\ latest[A] = V2
    /\ events = 0
    /\ pc = "idle"
    /\ runs = 0
    /\ HEAD = NoCommit
    /\ localBranches = {}
    /\ tree = {}
    /\ outdated = << >>
    /\ idx = 1
    /\ result = EmptyMap
    /\ raised = "none"
    /\ flow = "none"
    /\ cloned = NoCommit
    /\ seen = << >>
    /\ pushed = {}
    /\ opened = << >>
    /\ comments = << >>
    /\ deleted = << >>
    /\ listed = {}
    /\ relocks = 0
    /\ faults = {}
    /\ fresh = FALSE
    /\ rerun = FALSE
    /\ retry = {}
    /\ peer = NotStarted

Init ==
    /\ InitRepository
    /\ call = NoCall
    /\ ret = None

\* `x in text` for strings.
In(x, text) ==
    \E i \in 1..(Len(text) - Len(x) + 1) : SubSeq(text, i, i + Len(x) - 1) = x

\* A mutant: the body of the issue is not looked at.
RefreshIgnoringBody(sha_, issue) ==
    IF \E i \in 1..Len(issue.comments) : In(sha_, issue.comments[i])
    THEN None
    ELSE <<"c">> \o sha_

\* ISSUE_COMMENT_UPDATE_ALL.format(sha=self.sha, ...): the text of a refresh
\* comment, with the SHA in it.
ISSUE_COMMENT_UPDATE_ALL(sha_) == <<"c">> \o sha_

\* _add_refresh_comment(exc, issue) at self.sha = sha_: the comment to add to
\* the issue, or None. issue.comments is what list_issue_comments returns.
_add_refresh_comment(sha_, issue) ==
    IF In(sha_, issue.body) THEN None
    ELSE IF \E i \in 1..Len(issue.comments) : In(sha_, issue.comments[i])
    THEN None
    ELSE ISSUE_COMMENT_UPDATE_ALL(sha_)

\* ---------------------------------------------------- the environment
\* Between runs the default branch moves, packages are released, and users
\* open changes of their own; what happens after the last run is not looked at.
\* When the engine first runs, a later version of package a has been released.

Event ==
    /\ pc = "idle"
    /\ runs < MaxRuns
    /\ events < MaxEvents
    /\ events' = events + 1
    /\ fresh' = FALSE
    /\ retry' = {}
    /\ UNCHANGED <<issues, manifest>>
    /\ UNCHANGED <<run, pure, peer>>
    /\ UNCHANGED <<cloned, seen, pushed, opened, comments, deleted, listed, relocks, faults, rerun>>

UpstreamCommit ==
    /\ Event
    /\ branches' = [branches EXCEPT ![MASTER] = MasterCommit(head.base + 1)]
    /\ UNCHANGED <<pulls, nextNumber, latest, style, hasLock>>

\* A commit on the default branch that adds the manifest the repository
\* lacked, or the lock file (the initial lock was merged, say).
ManifestCommitted ==
    /\ Event
    /\ \/ /\ style = "none"
          /\ style' \in {"pipenv", "requirements"}
          /\ hasLock' \in BOOLEAN
       \/ /\ style # "none"
          /\ ~hasLock
          /\ hasLock' = TRUE
          /\ UNCHANGED style
    /\ branches' = [branches EXCEPT ![MASTER] = MasterCommit(head.base + 1)]
    /\ UNCHANGED <<pulls, nextNumber, latest>>

Release ==
    /\ Event
    /\ \E p \in Pkgs : \E v \in Versions(p) :
           /\ Newer(v, latest[p])
           /\ latest' = [latest EXCEPT ![p] = v]
    /\ UNCHANGED <<branches, pulls, nextNumber, style, hasLock>>

\* A user opens a change from a branch that already has one (for another
\* target branch, say): the listing filters by source branch only.
UserOpensChange ==
    /\ Event
    /\ \E pr \in pulls :
           pulls' = pulls \cup {[number |-> nextNumber, branch |-> pr.branch,
                                 base |-> head]}
    /\ nextNumber' = nextNumber + 1
    /\ UNCHANGED <<branches, latest, style, hasLock>>

\* -------------------------------------------------------------- the run

\* git.Repo.clone_from(..., branch='master', depth=1)
Clone ==
    /\ pc = "idle"
    /\ runs < MaxRuns
    /\ runs' = runs + 1
    /\ pc' = "cloned"
    /\ HEAD' = head
    /\ localBranches' = {MASTER}
    /\ tree' = {}
    /\ cloned' = head
    /\ rerun' = fresh
    /\ UNCHANGED <<outdated, idx, result, raised, flow>>
    /\ UNCHANGED <<seen, pushed, opened, comments, deleted, listed, relocks, faults>>
    /\ UNCHANGED <<world, fresh, retry, pure, peer>>

\* update() returns `res` or ends with the exception `exc`.
Return(exc, res) ==
    /\ pc' = "done"
    /\ raised' = exc
    /\ result' = res
    /\ UNCHANGED <<runs, outdated, idx>>

\* Every delta of the run was reconciled: created, rebased or skipped.
FullyReconciled ==
    /\ pc = "done"
    /\ flow = "loop"
    /\ raised = "none"
    /\ Len(seen) = Len(outdated)
    /\ \A i \in 1..Len(seen) : seen[i].outcome \in {"Created", "Rebased", "Skipped"}

\* The run is over: the temporary clone is removed with all the run knew.
Exit ==
    /\ pc = "done"
    /\ pc' = "idle"
    /\ fresh' = FullyReconciled
    /\ retry' = {seen[i].branch : i \in {j \in 1..Len(seen) : seen[j].outcome = "Failed"}}
    /\ HEAD' = NoCommit
    /\ localBranches' = {}
    /\ tree' = {}
    /\ outdated' = << >>
    /\ idx' = 1
    /\ result' = EmptyMap
    /\ raised' = "none"
    /\ flow' = "none"
    /\ cloned' = NoCommit
    /\ seen' = << >>
    /\ pushed' = {}
    /\ opened' = << >>
    /\ comments' = << >>
    /\ deleted' = << >>
    /\ listed' = {}
    /\ relocks' = 0
    /\ faults' = {}
    /\ rerun' = FALSE
    /\ UNCHANGED <<world, runs, pure, peer>>

\* The direct dependencies with their locked versions, before the update:
\* _get_direct_dependencies_version (Pipfile and Pipfile.lock), or the
\* entries of requirements.txt named in requirements.in, where dev is
\* always False.
OldDirect ==
    IF style = "pipenv" THEN manifest
    ELSE [i \in 1..Len(manifest) |-> [manifest[i] EXCEPT !.dev = FALSE]]

\* _get_direct_dependencies_version after the resolver has locked the
\* latest versions.
NewDirect ==
    [p \in {manifest[i].name : i \in 1..Len(manifest)} |->
        [version |-> latest[p], dev |-> FALSE]]

\* open_issue_if_not_exist(title, body, refresh_comment=partial(
\* self._add_refresh_comment, self, exc)): for an issue that is open already
\* the refresh callback is called; bound to self and given self again, it
\* has one positional argument too many and raises TypeError.
OpenIssueRaises(title) == issues[title] > 0

\* How lock_func() ends. partial(self._pipenv_lock_requirements, self) calls
\* a classmethod that takes no argument with one: TypeError. The signature
\* of run_pipenv is not in the sources at hand: partial(self.run_pipenv,
\* self, 'pipenv lock') locks, fails in the resolver, or raises TypeError.
LockOutcomes ==
    IF style = "requirements" THEN {"TypeError"}
    ELSE {"ok", "PipenvError", "TypeError"}

\* A mutant: the issue is opened whether or not one is open already.
OpensAnotherIssue ==
    /\ style = "none"
    /\ issues' = [issues EXCEPT ![_ISSUE_NO_DEPENDENCY_NAME] = @ + 1]
    /\ flow' = "no-management"
    /\ faults' = faults
    /\ Return("none", EmptyMap)
    /\ UNCHANGED <<branches, pulls, nextNumber, HEAD, localBranches, tree>>
    /\ UNCHANGED <<seen, pushed, opened, comments, deleted, listed, relocks>>

\* update(): no Pipfile and no requirements.in.
NoDependencyManagement ==
    /\ style = "none"
    /\ issues' = open_issue_if_not_exist(issues, _ISSUE_NO_DEPENDENCY_NAME)
    /\ flow' = "no-management"
    /\ faults' = faults
    /\ Return("none", EmptyMap)
    /\ UNCHANGED <<branches, pulls, nextNumber, HEAD, localBranches, tree>>
    /\ UNCHANGED <<seen, pushed, opened, comments, deleted, listed, relocks>>

\* update(): _create_pipenv_environment fails in the resolver.
CreateEnvironmentFails ==
    /\ style = "requirements"
    /\ flow' = "none"
    /\ faults' = faults \cup {"install"}
    /\ Return("PipenvError", EmptyMap)
    /\ UNCHANGED <<branches, pulls, issues, nextNumber, HEAD, localBranches, tree>>
    /\ UNCHANGED <<seen, pushed, opened, comments, deleted, listed, relocks>>

\* The sentinel issues when _do_update is entered: with a Pipfile the
\* no-management issue has been closed.
IssuesAtDoUpdate ==
    IF style = "pipenv" THEN close_issue_if_exists(issues, _ISSUE_NO_DEPENDENCY_NAME)
    ELSE issues

\* _do_update: no lock file yet, _create_initial_lock proposes one on its
\* fixed branch and the run returns {} (or ends with what was raised).
\* lock is how lock_func() ends, fail the call that fails after it.
_create_initial_lock(lock, fail) ==
    LET response == list_pull_requests(INITIAL_LOCK_BRANCH)
        n == Cardinality(response)
        pr == CHOOSE r \in response : TRUE
        stale == n = 1 /\ sha # pr.base
        locks == n = 0 \/ stale
        push == _git_push(INITIAL_LOCK_BRANCH, stale, fail = "push")
        exc == IF n > 1 THEN "DependencyManagementError"
               ELSE IF ~locks THEN "none"
               ELSE IF lock = "PipenvError" /\ OpenIssueRaises(_ISSUE_INITIAL_LOCK_NAME)
               THEN "TypeError"
               ELSE IF lock # "ok" THEN lock
               ELSE IF ~push.ok THEN "GitCommandError"
               ELSE IF fail = "open" THEN "TransportError"
               ELSE "none"
        pushes == locks /\ lock = "ok"
        done == pushes /\ exc = "none"
    IN  /\ style # "none"
        /\ ~hasLock
        /\ flow' = "initial-lock"
        /\ faults' = IF ~locks THEN faults
                     ELSE IF lock = "PipenvError" THEN faults \cup {"lock"}
                     ELSE IF lock = "ok" /\ fail # "none" THEN faults \cup {fail}
                     ELSE faults
        /\ Return(exc, EmptyMap)
        /\ issues' = IF locks /\ lock = "PipenvError" /\ ~OpenIssueRaises(_ISSUE_INITIAL_LOCK_NAME)
                     THEN open_issue_if_not_exist(IssuesAtDoUpdate, _ISSUE_INITIAL_LOCK_NAME)
                     ELSE IssuesAtDoUpdate
        /\ HEAD' = IF pushes THEN push.HEAD ELSE HEAD
        /\ localBranches' = IF pushes THEN push.localBranches ELSE localBranches
        /\ tree' = tree
        /\ branches' = IF pushes THEN push.branches ELSE branches
        /\ pushed' = IF pushes THEN push.pushed ELSE pushed
        /\ pulls' = IF done /\ n = 0 THEN open_pull_request(push.pulls, INITIAL_LOCK_BRANCH)
                    ELSE IF pushes THEN push.pulls ELSE pulls
        /\ opened' = IF done /\ n = 0
                     THEN Append(opened, [number |-> nextNumber, branch |-> INITIAL_LOCK_BRANCH])
                     ELSE opened
        /\ nextNumber' = IF done /\ n = 0 THEN nextNumber + 1 ELSE nextNumber
        /\ comments' = IF done /\ stale THEN Append(comments, pr.number) ELSE comments
        /\ UNCHANGED <<seen, deleted, listed, relocks>>

\* _do_update with Pipfile: _pipenv_update_all fails, the sentinel issue is
\* opened and the run returns {}.
UpdateAllFails ==
    /\ style = "pipenv"
    /\ hasLock
    /\ flow' = "update-failed"
    /\ faults' = faults \cup {"update"}
    /\ LET is == close_issue_if_exists(IssuesAtDoUpdate, _ISSUE_INITIAL_LOCK_NAME)
       IN  IF OpenIssueRaises(_ISSUE_UPDATE_ALL_NAME)
           THEN issues' = is /\ Return("TypeError", EmptyMap)
           ELSE /\ issues' = open_issue_if_not_exist(is, _ISSUE_UPDATE_ALL_NAME)
                /\ Return("none", EmptyMap)
    /\ UNCHANGED <<branches, pulls, nextNumber, HEAD, localBranches, tree>>
    /\ UNCHANGED <<seen, pushed, opened, comments, deleted, listed, relocks>>

\* _do_update up to the per-dependency loop: the sentinel issues of the
\* flows that did not fail are closed, the deltas are computed and the
\* working tree is reset.
EnterLoop ==
    /\ style # "none"
    /\ hasLock
    /\ issues' = LET is == close_issue_if_exists(IssuesAtDoUpdate, _ISSUE_INITIAL_LOCK_NAME)
                 IN  IF style = "pipenv"
                     THEN close_issue_if_exists(is, _ISSUE_UPDATE_ALL_NAME)
                     ELSE is
    /\ outdated' = _get_all_outdated(OldDirect, NewDirect)
    /\ idx' = 1
    /\ result' = EmptyMap
    /\ flow' = "loop"
    /\ pc' = "loop"
    /\ faults' = faults
    /\ UNCHANGED <<runs, raised>>
    /\ UNCHANGED <<branches, pulls, nextNumber, HEAD, localBranches, tree>>
    /\ UNCHANGED <<seen, pushed, opened, comments, deleted, listed, relocks>>

\* update() from the clone to the per-dependency loop, or to its end.
BeginUpdate ==
    /\ pc = "cloned"
    /\ \/ NoDependencyManagement
       \/ CreateEnvironmentFails
       \/ \E lock \in LockOutcomes : \E fail \in {"none", "push", "open"} :
              _create_initial_lock(lock, fail)
       \/ UpdateAllFails
       \/ EnterLoop
    /\ UNCHANGED <<style, hasLock, manifest, latest, events, cloned, fresh, rerun, retry, pure, peer>>

\* A mutant: the branch is pushed and no change is opened for it.
PushWithoutPullRequest(dependency, old_version, new_version, pr_number, fail) ==
    LET push == _git_push(_construct_branch_name(dependency, new_version), TRUE,
                          fail = "push")
        ok == push.ok /\ fail # "open"
    IN  [ok |-> ok, HEAD |-> push.HEAD, localBranches |-> push.localBranches,
         branches |-> push.branches, pulls |-> push.pulls, pushed |-> push.pushed,
         opened |-> opened, comments |-> comments, nextNumber |-> nextNumber,
         versions |-> IF ok THEN <<old_version, new_version, pr_number>> ELSE None]

\* A mutant: a change is opened whether or not the branch has one.
OpenAnew(dependency, old_version, new_version, pr_number, fail) ==
    LET branch_name == _construct_branch_name(dependency, new_version)
        push == _git_push(branch_name, TRUE, fail = "push")
        after == [ok |-> FALSE, HEAD |-> push.HEAD, localBranches |-> push.localBranches,
                  branches |-> push.branches, pulls |-> push.pulls, pushed |-> push.pushed,
                  opened |-> opened, comments |-> comments, nextNumber |-> nextNumber,
                  versions |-> None]
    IN  IF ~push.ok \/ fail = "open" THEN after
        ELSE [after EXCEPT !.ok = TRUE,
                           !.pulls = open_pull_request(push.pulls, branch_name),
                           !.opened = Append(opened, [number |-> nextNumber,
                                                      branch |-> branch_name]),
                           !.nextNumber = nextNumber + 1,
                           !.versions = <<old_version, new_version, nextNumber>>]

\* A mutant: a change is opened only for a branch the remote did not have.
OpenOnlyOnFirstPush(dependency, old_version, new_version, pr_number, fail) ==
    LET branch_name == _construct_branch_name(dependency, new_version)
        push == _git_push(branch_name, TRUE, fail = "push")
        after == [ok |-> FALSE, HEAD |-> push.HEAD, localBranches |-> push.localBranches,
                  branches |-> push.branches, pulls |-> push.pulls, pushed |-> push.pushed,
                  opened |-> opened, comments |-> comments, nextNumber |-> nextNumber,
                  versions |-> None]
    IN  IF ~push.ok \/ fail = "open" THEN after
        ELSE IF pr_number < 0 /\ branch_name \notin DOMAIN branches
        THEN [after EXCEPT !.ok = TRUE,
                           !.pulls = open_pull_request(push.pulls, branch_name),
                           !.opened = Append(opened, [number |-> nextNumber,
                                                      branch |-> branch_name]),
                           !.nextNumber = nextNumber + 1,
                           !.versions = <<old_version, new_version, nextNumber>>]
        ELSE [after EXCEPT !.ok = TRUE,
                           !.versions = <<old_version, new_version, pr_number>>]

\* _open_pull_request_update: what it leaves behind, `ok` FALSE when it
\* raised, `versions` the tuple _create_update returns.
_open_pull_request_update(dependency, old_version, new_version, pr_number, fail) ==
    LET branch_name == _construct_branch_name(dependency, new_version)
        push == _git_push(branch_name, TRUE, fail = "push")
        after == [ok |-> FALSE, HEAD |-> push.HEAD, localBranches |-> push.localBranches,
                  branches |-> push.branches, pulls |-> push.pulls, pushed |-> push.pushed,
                  opened |-> opened, comments |-> comments, nextNumber |-> nextNumber,
                  versions |-> None]
    IN  IF ~push.ok \/ fail = "open" THEN after
        ELSE IF pr_number < 0
        THEN [after EXCEPT !.ok = TRUE,
                           !.pulls = open_pull_request(push.pulls, branch_name),
                           !.opened = Append(opened, [number |-> nextNumber,
                                                      branch |-> branch_name]),
                           !.nextNumber = nextNumber + 1,
                           !.versions = <<old_version, new_version, nextNumber>>]
        ELSE [after EXCEPT !.ok = TRUE,
                           !.comments = Append(comments, pr_number),
                           !.versions = <<old_version, new_version, pr_number>>]

\* _create_update: the resolver installs and locks the one package
\* (fail = "install": it fails), then the change is pushed and proposed.
_create_update(dependency, package_version, old_version, pr_number, fail) ==
    IF fail = "install"
    THEN [ok |-> FALSE, HEAD |-> HEAD, localBranches |-> localBranches,
          branches |-> branches, pulls |-> pulls, pushed |-> pushed,
          opened |-> opened, comments |-> comments, nextNumber |-> nextNumber,
          versions |-> None]
    ELSE _open_pull_request_update(dependency, old_version, package_version, pr_number, fail)

\* The files git tracks in the clone.
Tracked ==
    IF style = "pipenv" THEN {"Pipfile", "Pipfile.lock"}
    ELSE {"requirements.in", "requirements.txt"}

\* self.repo.head.reset(index=True, working_tree=True): the index and the
\* tracked files are put back to the commit HEAD points at; files git does
\* not track are left as they are.
reset(changes) == {c \in changes : c.file \notin Tracked}

\* The uncommitted changes when _create_update is over. `pipenv install
\* <dependency>==<version> --keep-outdated` and `pipenv lock` write Pipfile
\* and Pipfile.lock in the working directory, _pipenv_lock_requirements
\* writes requirements.txt; _git_push, unless its checkout fails, commits
\* the one file it is given.
AfterCreateUpdate(dependency, branch_name, fail) ==
    LET by(files) == {[file |-> f, by |-> dependency] : f \in files}
        files == IF style = "pipenv" THEN {"Pipfile.lock"} ELSE {"requirements.txt"}
    IN  IF fail = "install" THEN tree \cup by({"Pipfile", "Pipfile.lock"})
        ELSE IF branch_name \in localBranches
        THEN tree \cup by({"Pipfile", "Pipfile.lock"} \cup files)
        ELSE {c \in tree \cup by({"Pipfile", "Pipfile.lock"}) : c.file \notin files}

\* A mutant: after the relock the loop goes on with the next delta.
ContinueLoop(exc) ==
    /\ idx' = idx + 1
    /\ UNCHANGED <<pc, runs, outdated, result, raised>>

\* `self._relock_all(exc, labels); return {}`: the loop is left, with {}
\* or with what _relock_all raised.
AbandonLoop(exc) ==
    IF exc = "none" THEN Return("none", EmptyMap) ELSE Return(exc, result)

\* _relock_all, called when the old environment cannot be replicated; the
\* run ends with it.
_relock_all(fail) ==
    LET known == OpenIssueRaises(_ISSUE_REPLICATE_ENV_NAME)
        push == _git_push(RELOCK_BRANCH, FALSE, fail = "push")
        exc == IF known THEN "TypeError"
               ELSE IF fail = "update" THEN "PipenvError"
               ELSE IF ~push.ok THEN "GitCommandError"
               ELSE IF fail = "open" THEN "TransportError"
               ELSE "none"
        pushes == ~known /\ fail # "update"
    IN  /\ relocks' = relocks + 1
        /\ flow' = "relock"
        /\ issues' = open_issue_if_not_exist(issues, _ISSUE_REPLICATE_ENV_NAME)
        /\ HEAD' = IF pushes THEN push.HEAD ELSE HEAD
        /\ localBranches' = IF pushes THEN push.localBranches ELSE localBranches
        /\ tree' = tree
        /\ branches' = IF pushes THEN push.branches ELSE branches
        /\ pushed' = IF pushes THEN push.pushed ELSE pushed
        /\ pulls' = IF exc = "none" THEN open_pull_request(push.pulls, RELOCK_BRANCH)
                    ELSE IF pushes THEN push.pulls ELSE pulls
        /\ opened' = IF exc = "none"
                     THEN Append(opened, [number |-> nextNumber, branch |-> RELOCK_BRANCH])
                     ELSE opened
        /\ nextNumber' = IF exc = "none" THEN nextNumber + 1 ELSE nextNumber
        /\ AbandonLoop(exc)
        /\ UNCHANGED comments

\* A mutant: the delta is entered in the result although its update failed.
CollectedAnyway(package_name, up) ==
    (package_name :> up.versions) @@ result

\* `if versions: result[package_name] = versions`, which is not reached when
\* _create_update raised: the exception is logged and the loop goes on.
Collected(package_name, up) ==
    IF up.ok THEN (package_name :> up.versions) @@ result ELSE result

\* One iteration of the per-dependency loop of _do_update. fail names the
\* call that fails in it, if any: the listing of the open changes, the
\* replication of the old environment, the resolver in _create_update, the
\* push, or the opening of (or the comment on) the change.
ProcessDelta ==
    /\ pc = "loop"
    /\ idx <= Len(outdated)
    /\ \E fail \in {"none", "list", "sync", "install", "push", "open"} :
       LET package_name == outdated[idx].name
           new_version == outdated[idx].new_version
           old_version == outdated[idx].old_version
           branch_name == _construct_branch_name(package_name, new_version)
           su == _should_update(package_name, new_version)
           entry(outcome) ==
               [name |-> package_name, branch |-> branch_name, sha |-> sha,
                matches |-> list_pull_requests(branch_name),
                pr_number |-> su.pr_number, should_update |-> su.should_update,
                outcome |-> outcome]
           up == _create_update(package_name, new_version, old_version, su.pr_number, fail)
       IN  \/ /\ fail = "list"
              /\ Return("TransportError", result)
              /\ faults' = faults \cup {fail}
              /\ UNCHANGED <<branches, pulls, issues, nextNumber, HEAD, localBranches, tree, flow>>
              /\ UNCHANGED <<seen, pushed, opened, comments, relocks>>
           \/ /\ fail = "none"
              /\ su.raised # "none"
              /\ seen' = Append(seen, entry(su.raised))
              /\ faults' = faults
              /\ Return(su.raised, result)
              /\ UNCHANGED <<branches, pulls, issues, nextNumber, HEAD, localBranches, tree, flow>>
              /\ UNCHANGED <<pushed, opened, comments, relocks>>
           \/ /\ fail = "none"
              /\ su.raised = "none"
              /\ ~su.should_update
              /\ seen' = Append(seen, entry("Skipped"))
              /\ faults' = faults
              /\ idx' = idx + 1
              /\ UNCHANGED <<pc, runs, outdated, result, raised, flow>>
              /\ UNCHANGED <<branches, pulls, issues, nextNumber, HEAD, localBranches, tree>>
              /\ UNCHANGED <<pushed, opened, comments, relocks>>
           \/ /\ fail = "sync"
              /\ su.raised = "none"
              /\ su.should_update
              /\ seen' = Append(seen, entry("Relock"))
              /\ \E rfail \in {"none", "update", "push", "open"} :
                     /\ _relock_all(rfail)
                     /\ faults' = faults \cup {fail} \cup ({rfail} \ {"none"})
           \/ /\ fail \in {"none", "install", "push", "open"}
              /\ su.raised = "none"
              /\ su.should_update
              /\ faults' = faults \cup ({fail} \ {"none"})
              /\ seen' = Append(seen, entry(IF ~up.ok THEN "Failed"
                                            ELSE IF su.pr_number < 0 THEN "Created"
                                            ELSE "Rebased"))
              /\ result' = Collected(package_name, up)
              /\ HEAD' = up.HEAD
              /\ localBranches' = up.localBranches
              /\ tree' = reset(AfterCreateUpdate(package_name, branch_name, fail))
              /\ branches' = up.branches
              /\ pulls' = up.pulls
              /\ pushed' = up.pushed
              /\ opened' = up.opened
              /\ comments' = up.comments
              /\ nextNumber' = up.nextNumber
              /\ idx' = idx + 1
              /\ UNCHANGED <<pc, runs, outdated, raised, flow, issues, relocks>>
    /\ UNCHANGED <<style, hasLock, manifest, latest, events, cloned, deleted, listed, fresh, rerun, retry>>
    /\ UNCHANGED <<pure, peer>>

\* The end of _do_update after the loop: the relock issue is closed, the
\* old branches are deleted (a failing delete_branch is logged and passed
\* over) and the result is returned.
Finish ==
    /\ pc = "loop"
    /\ idx > Len(outdated)
    /\ issues' = close_issue_if_exists(issues, _ISSUE_REPLICATE_ENV_NAME)
    /\ \/ /\ Return("TransportError", result)
          /\ faults' = faults \cup {"list_branches"}
          /\ UNCHANGED <<branches, listed, deleted>>
       \/ /\ listed' = list_branches
          /\ deleted' = SetToSeq(_delete_old_branches(outdated))
          /\ \E failing \in SUBSET _delete_old_branches(outdated) :
                 /\ branches' = [b \in DOMAIN branches \
                                       (_delete_old_branches(outdated) \ failing) |->
                                    branches[b]]
                 /\ faults' = IF failing = {} THEN faults
                              ELSE faults \cup {"delete_branch"}
          /\ Return("none", result)
    /\ UNCHANGED <<pulls, nextNumber, style, hasLock, manifest, latest, events>>
    /\ UNCHANGED <<HEAD, localBranches, tree, flow>>
    /\ UNCHANGED <<cloned, seen, pushed, opened, comments, relocks, fresh, rerun, retry, pure, peer>>

Next ==
    \/ UpstreamCommit
    \/ ManifestCommitted
    \/ Release
    \/ UserOpensChange
    \/ Clone
    \/ BeginUpdate
    \/ ProcessDelta
    \/ Finish
    \/ Exit

Spec == Init /\ [][Next]_vars

\* ------------------------------------------- the pure helpers on their own

\* Snapshots over two packages and two versions: the old one a dict in
\* insertion order, the new one a mapping.
Entries(p) == {[name |-> p, version |-> v, dev |-> d] : v \in {V1, V2}, d \in BOOLEAN}

OldSnapshots ==
    {<< >>}
        \cup {<<e>> : e \in Entries(A) \cup Entries(B)}
        \cup {<<e, f>> : e \in Entries(A), f \in Entries(B)}
        \cup {<<f, e>> : e \in Entries(A), f \in Entries(B)}

NewSnapshots ==
    UNION {[S -> [version : {V1, V2}, dev : BOOLEAN]] : S \in SUBSET Pkgs}

\* The strings of at most MaxLen characters over a small alphabet.
Strings == UNION {[1..n -> {"a", "-", "1"}] : n \in 1..MaxLen}

InitOutdated ==
    /\ InitRepository
    /\ style = "none"
    /\ manifest = <<EA, EBdev>>
    /\ latest[B] = V1
    /\ call \in {[f |-> "_get_all_outdated", old |-> o, new |-> n, done |-> FALSE] :
                    o \in OldSnapshots, n \in NewSnapshots}
    /\ ret = None

CallGetAllOutdated ==
    /\ call.f = "_get_all_outdated"
    /\ ~call.done
    /\ ret' = _get_all_outdated(call.old, call.new)
    /\ call' = [call EXCEPT !.done = TRUE]
    /\ UNCHANGED <<world, run, history, peer>>

SpecOutdated == InitOutdated /\ [][CallGetAllOutdated]_vars

InitBranchName ==
    /\ InitRepository
    /\ style = "none"
    /\ manifest = <<EA, EBdev>>
    /\ latest[B] = V1
    /\ call \in {[f |-> "_construct_branch_name", name |-> n, v1 |-> v, v2 |-> w,
                  done |-> FALSE] : n \in Strings, v \in Strings, w \in Strings}
    /\ ret = None

CallConstructBranchName ==
    /\ call.f = "_construct_branch_name"
    /\ ~call.done
    /\ ret' = <<_construct_branch_name(call.name, call.v1),
                _construct_branch_name(call.name, call.v2)>>
    /\ call' = [call EXCEPT !.done = TRUE]
    /\ UNCHANGED <<world, run, history, peer>>

SpecBranchName == InitBranchName /\ [][CallConstructBranchName]_vars

\* Package names: they start with a letter and do not end in the separator;
\* a-1 is among them whatever MaxLen is.
PackageNames ==
    {n \in Strings : n[1] = "a" /\ n[Len(n)] # "-"} \cup {<<"a", "-", "1">>}

\* Versions: they start with a digit and do not end in the separator; 1-1
\* is among them whatever MaxLen is.
PackageVersions ==
    {v \in Strings : v[1] = "1" /\ v[Len(v)] # "-"} \cup {<<"1", "-", "1">>}

\* Two deltas of one run, or of two runs.
InitBranchPairs ==
    /\ InitRepository
    /\ style = "none"
    /\ manifest = <<EA, EBdev>>
    /\ latest[B] = V1
    /\ call \in {[f |-> "branch names", name1 |-> n, version1 |-> v, name2 |-> m,
                  version2 |-> w, done |-> FALSE] :
                    n \in PackageNames, v \in PackageVersions,
                    m \in PackageNames, w \in PackageVersions}
    /\ ret = None

CallBranchPairs ==
    /\ call.f = "branch names"
    /\ ~call.done
    /\ ret' = <<_construct_branch_name(call.name1, call.version1),
                _construct_branch_name(call.name2, call.version2)>>
    /\ call' = [call EXCEPT !.done = TRUE]
    /\ UNCHANGED <<world, run, history, peer>>

SpecBranchPairs == InitBranchPairs /\ [][CallBranchPairs]_vars

\* The SHA of the n-th head of the default branch, as a string.
ShaOf(n) == <<<<"1", "2", "3", "4", "5">>[n]>>

\* The body of a sentinel issue opened at the head with the SHA sha_.
ISSUE_BODY(sha_) == <<"b">> \o sha_

\* A sentinel issue, opened by the engine at the first head or by somebody
\* else (no SHA in its body), with or without a comment of a user; failing
\* runs report to it while the default branch moves on.
InitRefresh ==
    /\ InitRepository
    /\ style = "none"
    /\ manifest = <<EA, EBdev>>
    /\ latest[B] = V1
    /\ call \in {[f |-> "_add_refresh_comment", sha |-> 1, calls |-> 0,
                  issue |-> [body |-> b, comments |-> c]] :
                    b \in {ISSUE_BODY(ShaOf(1)), <<"b">>}, c \in {<< >>, <<<<"u">>>>}}
    /\ ret = None

\* A failing run at the head call.sha: open_issue_if_not_exist finds the
\* issue open, calls the refresh callback and adds the comment it returns.
CallAddRefreshComment ==
    /\ call.f = "_add_refresh_comment"
    /\ call.calls < MaxCalls
    /\ ret' = _add_refresh_comment(ShaOf(call.sha), call.issue)
    /\ call' = [call EXCEPT !.calls = @ + 1,
                            !.issue.comments = IF ret' = None THEN @ ELSE Append(@, ret')]
    /\ UNCHANGED <<world, run, history, peer>>

\* A commit lands on the default branch.
HeadMoves ==
    /\ call.f = "_add_refresh_comment"
    /\ call.sha < MaxSha
    /\ call' = [call EXCEPT !.sha = @ + 1]
    /\ UNCHANGED <<ret, world, run, history, peer>>

NextRefresh == CallAddRefreshComment \/ HeadMoves

SpecRefresh == InitRefresh /\ [][NextRefresh]_vars

\* Lines of a requirements.txt: blank, comments, an option, pins (one with
\* an upper-case name, one followed by a comment), and one that pins nothing.
TxtLines ==
    {<< >>, <<"#", "c">>, <<" ", "#">>, <<"-", "i">>,
     <<"a", "=", "=", "1">>, <<"A", "=", "=", "1">>, <<"b", "=", "=", "2">>,
     <<"a", "=", "=", "1", " ", "#">>, <<"a", "=", "1">>}

\* Lines of a requirements.in.
InLines == {<<"a">>, <<"A">>, <<"b", ">", "1">>, <<"#", "c">>}

\* The sections of a Pipfile, and of the Pipfile.lock made from it.
Pipfiles ==
    {[packages |-> <<<<"A">>>>, dev |-> <<<<"b">>>>],
     [packages |-> <<<<"b">>, <<"a">>>>, dev |-> << >>]}

LockOf(pipfile) ==
    [default |-> [i \in 1..Len(pipfile.packages) |->
                     [name |-> pipfile.packages[i], version |-> <<"=", "=", "1">>]],
     develop |-> [i \in 1..Len(pipfile.dev) |->
                     [name |-> pipfile.dev[i], version |-> <<"=", "=", "2">>]]]

InitReaders ==
    /\ InitRepository
    /\ style = "none"
    /\ manifest = <<EA, EBdev>>
    /\ latest[B] = V1
    /\ call \in {[f |-> "readers", txt |-> t, in |-> i, pipfile |-> p, done |-> FALSE] :
                    t \in UNION {[1..n -> TxtLines] : n \in 0..MaxLines},
                    i \in UNION {[1..n -> InLines] : n \in 1..2},
                    p \in Pipfiles}
    /\ ret = None

\* The snapshot readers are applied to the files.
CallReaders ==
    /\ call.f = "readers"
    /\ ~call.done
    /\ ret' = LET old_environment == _get_requirements_txt_dependencies(call.txt)
                  direct_dependencies == _get_direct_dependencies_requirements(call.in)
              IN  [txt |-> old_environment,
                   direct |-> direct_dependencies,
                   old |-> OldDirectRequirements(old_environment.result, direct_dependencies),
                   pipfile |-> _get_direct_dependencies(call.pipfile),
                   lock |-> _get_all_packages_versions(LockOf(call.pipfile))]
    /\ call' = [call EXCEPT !.done = TRUE]
    /\ UNCHANGED <<world, run, history, peer>>

SpecReaders == InitReaders /\ [][CallReaders]_vars

\* ------------------------------------------------- two runs on one repository
\* Two runs of UpdateManager.update work on the same remote repository, each
\* in a clone of its own. The variables of the run hold the clone of the run
\* that steps, `peer` holds the other; the calls to the remote (listing the
\* open changes, the push, opening the change or commenting) are the steps
\* that interleave.

Local ==
    [pc |-> pc, HEAD |-> HEAD, localBranches |-> localBranches, tree |-> tree,
     outdated |-> outdated,
     idx |-> idx, result |-> result, raised |-> raised, flow |-> flow, seen |-> seen]

\* The other run goes on.
Yield ==
    /\ peer' = Local
    /\ pc' = peer.pc
    /\ HEAD' = peer.HEAD
    /\ localBranches' = peer.localBranches
    /\ tree' = peer.tree
    /\ outdated' = peer.outdated
    /\ idx' = peer.idx
    /\ result' = peer.result
    /\ raised' = peer.raised
    /\ flow' = peer.flow
    /\ seen' = peer.seen
    /\ UNCHANGED <<world, runs, pure>>
    /\ UNCHANGED <<cloned, pushed, opened, comments, deleted, listed, relocks, faults, fresh, rerun, retry>>

\* The delta the loop is at, as _do_update records it.
Classified(outcome) ==
    LET package_name == outdated[idx].name
        new_version == outdated[idx].new_version
        branch_name == _construct_branch_name(package_name, new_version)
        su == _should_update(package_name, new_version)
    IN  [name |-> package_name, branch |-> branch_name, sha |-> sha,
         matches |-> list_pull_requests(branch_name),
         pr_number |-> su.pr_number, should_update |-> su.should_update,
         outcome |-> outcome]

\* pr_number, should_update = self._should_update(package_name, new_version)
ListChanges ==
    /\ pc = "loop"
    /\ idx <= Len(outdated)
    /\ LET su == _should_update(outdated[idx].name, outdated[idx].new_version)
       IN  IF su.raised # "none"
           THEN /\ seen' = Append(seen, Classified(su.raised))
                /\ Return(su.raised, result)
           ELSE IF ~su.should_update
           THEN /\ seen' = Append(seen, Classified("Skipped"))
                /\ idx' = idx + 1
                /\ UNCHANGED <<pc, raised, result, runs, outdated>>
           ELSE /\ seen' = Append(seen, Classified("Listed"))
                /\ pc' = "listed"
                /\ UNCHANGED <<idx, raised, result, runs, outdated>>
    /\ UNCHANGED <<world, HEAD, localBranches, tree, flow, pure, peer>>
    /\ UNCHANGED <<cloned, pushed, opened, comments, deleted, listed, relocks, faults, fresh, rerun, retry>>

\* self._git_push(commit_msg, branch_name, files, force_push=True) in
\* _open_pull_request_update, after the resolver has locked the update.
PushBranch ==
    /\ pc = "listed"
    /\ LET push == _git_push(seen[Len(seen)].branch, TRUE, FALSE)
       IN  /\ HEAD' = push.HEAD
           /\ localBranches' = push.localBranches
           /\ tree' = LET left == AfterCreateUpdate(outdated[idx].name,
                                                    seen[Len(seen)].branch, "none")
                      IN  IF push.ok THEN left ELSE reset(left)
           /\ branches' = push.branches
           /\ pulls' = push.pulls
           /\ pushed' = push.pushed
           /\ IF push.ok
              THEN pc' = "pushed" /\ UNCHANGED <<idx, seen>>
              ELSE /\ pc' = "loop"
                   /\ idx' = idx + 1
                   /\ seen' = [seen EXCEPT ![Len(seen)].outcome = "Failed"]
    /\ UNCHANGED <<issues, nextNumber, style, hasLock, manifest, latest, events>>
    /\ UNCHANGED <<runs, outdated, result, raised, flow, pure, peer>>
    /\ UNCHANGED <<cloned, opened, comments, deleted, listed, relocks, faults, fresh, rerun, retry>>

\* The rest of _open_pull_request_update: open_pull_request when the listing
\* found no change (pr_number < 0), add_comment otherwise.
OpenChange ==
    /\ pc = "pushed"
    /\ LET e == seen[Len(seen)]
           d == outdated[idx]
       IN  IF e.pr_number < 0
           THEN /\ pulls' = open_pull_request(pulls, e.branch)
                /\ opened' = Append(opened, [number |-> nextNumber, branch |-> e.branch])
                /\ nextNumber' = nextNumber + 1
                /\ result' = (d.name :> <<d.old_version, d.new_version, nextNumber>>) @@ result
                /\ seen' = [seen EXCEPT ![Len(seen)].outcome = "Created"]
                /\ UNCHANGED comments
           ELSE /\ comments' = Append(comments, e.pr_number)
                /\ result' = (d.name :> <<d.old_version, d.new_version, e.pr_number>>) @@ result
                /\ seen' = [seen EXCEPT ![Len(seen)].outcome = "Rebased"]
                /\ UNCHANGED <<pulls, opened, nextNumber>>
    /\ pc' = "loop"
    /\ idx' = idx + 1
    /\ UNCHANGED <<branches, issues, style, hasLock, manifest, latest, events>>
    /\ tree' = reset(tree)
    /\ UNCHANGED <<runs, HEAD, localBranches, outdated, raised, flow, pure, peer>>
    /\ UNCHANGED <<cloned, pushed, deleted, listed, relocks, faults, fresh, rerun, retry>>

\* A repository with Pipfile and Pipfile.lock, which two runs update.
InitRace ==
    /\ Init
    /\ style = "pipenv"
    /\ hasLock

NextRace ==
    \/ Clone
    \/ BeginUpdate
    \/ ListChanges
    \/ PushBranch
    \/ OpenChange
    \/ Finish
    \/ Exit
    \/ Yield

SpecRace == InitRace /\ [][NextRace]_vars

\* ------------------------------------------------ the configuration's run
\* The names the registry of managers knows.
REGISTERED_MANAGERS == {"info", "update", "version"}

\* What the 'name' of a manager item can be: a registered name, one the
\* registry does not know, or no name at all.
ManagerItems ==
    {[name |-> "update"], [name |-> "nope"], [configuration |-> None]}

\* `manager.pop('name')` raises for an item without the key, and
\* `REGISTERED_MANAGERS.get(manager_name)` is None for an unknown name.
HasManager(manager) ==
    /\ "name" \in DOMAIN manager
    /\ manager.name \in REGISTERED_MANAGERS

HTTPS == <<"h", "t", "t", "p", "s", ":", "/", "/">>
HTTP == <<"h", "t", "t", "p", ":", "/", "/">>

\* The repository entries of a configuration file: the entries with a service
\* URL that names its protocol and any managers, one with no service URL, one
\* whose service URL has no protocol, and one without the key 'slug'.
Repositories ==
    {[slug |-> TRUE, service_url |-> HTTPS \o <<"h">>, managers |-> m] :
        m \in UNION {[1..n -> ManagerItems] : n \in 0..MaxManagers}}
    \cup {[slug |-> TRUE, service_url |-> u, managers |-> <<[name |-> "update"]>>] :
            u \in {None, <<"h">>}}
    \cup {[slug |-> FALSE, service_url |-> None, managers |-> <<[name |-> "update"]>>]}

\* The positions of the entries iter_entries yields, in the order of the
\* file: an entry without a key is logged and passed over.
iter_entries(repositories) ==
    SelectSeq([i \in 1..Len(repositories) |-> i],
              LAMBDA i : repositories[i].slug)

\* `if service_url and not service_url.startswith(('https://', 'http://'))`
InvalidServiceUrl(service_url) ==
    /\ service_url # None
    /\ ~(startswith(service_url, HTTPS) \/ startswith(service_url, HTTP))

InitConfig ==
    /\ InitRepository
    /\ style = "none"
    /\ manifest = <<EA, EBdev>>
    /\ latest[B] = V1
    /\ call \in {[f |-> "_Config.run", repositories |-> r, pc |-> "entries",
                  entry |-> 0, manager |-> 0, failed |-> None] :
                    r \in UNION {[1..n -> Repositories] : n \in 0..MaxEntries}}
    /\ ret = None

\* The entry the loop over iter_entries is at.
Entry == call.repositories[iter_entries(call.repositories)[call.entry]]

\* The loop takes the next entry; one with a service URL without protocol is
\* logged and passed over.
NextEntry ==
    /\ call.f = "_Config.run"
    /\ call.pc = "entries"
    /\ call.entry < Len(iter_entries(call.repositories))
    /\ LET entry == call.repositories[iter_entries(call.repositories)[call.entry + 1]]
       IN  call' = [call EXCEPT !.entry = @ + 1,
                                !.manager = 1,
                                !.pc = IF InvalidServiceUrl(entry.service_url)
                                       THEN "entries" ELSE "managers"]
    /\ UNCHANGED ret
    /\ UNCHANGED <<world, run, history, peer>>

\* A manager item without a name, or with a name the registry does not
\* know, is logged and passed over.
SkipManager ==
    /\ call.f = "_Config.run"
    /\ call.pc = "managers"
    /\ call.manager <= Len(Entry.managers)
    /\ ~HasManager(Entry.managers[call.manager])
    /\ call' = [call EXCEPT !.manager = @ + 1]
    /\ UNCHANGED ret
    /\ UNCHANGED <<world, run, history, peer>>

\* The loop over the managers goes on with the next item.
NextManager(c) == [c EXCEPT !.manager = @ + 1]

\* The loop over the managers is left.
LeaveManagers(c) == [c EXCEPT !.manager = Len(Entry.managers) + 1]

\* `except Exception` around the construction and the run of one manager:
\* the exception is logged, and the loop goes on.
Caught(c) == NextManager(c)

\* A registered manager is constructed and run; either may raise.
RunManager ==
    /\ call.f = "_Config.run"
    /\ call.pc = "managers"
    /\ call.manager <= Len(Entry.managers)
    /\ HasManager(Entry.managers[call.manager])
    /\ LET this == <<iter_entries(call.repositories)[call.entry], call.manager>>
       IN  /\ ret' = Append(ret, this)
           /\ \E outcome \in {"done", "construction raises", "run raises"} :
                IF outcome = "done"
                THEN call' = NextManager(call)
                ELSE call' = [Caught(call) EXCEPT
                                !.failed = IF @ = None THEN this ELSE @]
    /\ UNCHANGED <<world, run, history, peer>>

\* The managers of the entry are through.
FinishEntry ==
    /\ call.f = "_Config.run"
    /\ call.pc = "managers"
    /\ call.manager > Len(Entry.managers)
    /\ call' = [call EXCEPT !.pc = "entries"]
    /\ UNCHANGED ret
    /\ UNCHANGED <<world, run, history, peer>>

\* The entries are through.
FinishRun ==
    /\ call.f = "_Config.run"
    /\ call.pc = "entries"
    /\ call.entry = Len(iter_entries(call.repositories))
    /\ call' = [call EXCEPT !.pc = "done"]
    /\ UNCHANGED ret
    /\ UNCHANGED <<world, run, history, peer>>

NextConfig ==
    \/ NextEntry
    \/ SkipManager
    \/ RunManager
    \/ FinishEntry
    \/ FinishRun

SpecConfig == InitConfig /\ [][NextConfig]_vars

\* ---------------------------------------------------- the version manager
\* The files os.walk meets that _adjust_version_in_sources looks into.
SourceFiles == {"setup.py", "__init__.py", "pkg/__init__.py"}

\* A tag is a pair of its name and the commit it points at.
TagsNamed(tags, name) == {t \in tags : t[1] = name}

\* What the remote holds when a release is requested: a default branch with
\* some head, and possibly a tag of the requested version from earlier.
InitVersion ==
    /\ InitRepository
    /\ style = "none"
    /\ manifest = <<EA, EBdev>>
    /\ latest[B] = V1
    /\ \E version \in {V1, V2, V3}, n \in 1..MaxSha, versioned \in SUBSET SourceFiles,
          tagged \in BOOLEAN :
        /\ call = [f |-> "VersionManager.run", pc |-> "issue",
                   version_identifier |-> version,
                   branch_name |-> <<"v">> \o version,
                   versioned |-> versioned,
                   HEAD |-> NoCommit, active_branch |-> None, index |-> {},
                   tags |-> {}, raised |-> "none"]
        /\ ret = [branches |-> (MASTER :> MasterCommit(n)),
                  tags |-> IF tagged THEN {<<version, MasterCommit(0)>>} ELSE {},
                  requests |-> {}]

\* `with cloned_repo(self.service_url, self.slug) as repo`
CloneForRelease ==
    /\ call.f = "VersionManager.run"
    /\ call.pc = "issue"
    /\ call' = [call EXCEPT !.pc = "adjust",
                            !.HEAD = ret.branches[MASTER],
                            !.active_branch = MASTER,
                            !.tags = ret.tags]
    /\ UNCHANGED ret
    /\ UNCHANGED <<world, run, history, peer>>

\* _adjust_version_in_sources: every file with a version identifier is
\* rewritten and added to the index. With no such file, or with more than
\* one, the title of the issue to open is built from a name that does not
\* exist (new_veresion), which raises NameError.
_adjust_version_in_sources ==
    /\ call.f = "VersionManager.run"
    /\ call.pc = "adjust"
    /\ call' = [call EXCEPT !.index = call.versioned,
                            !.pc = IF Cardinality(call.versioned) = 1
                                   THEN "checkout" ELSE "raised",
                            !.raised = IF Cardinality(call.versioned) = 1
                                       THEN "none" ELSE "NameError"]
    /\ UNCHANGED ret
    /\ UNCHANGED <<world, run, history, peer>>

\* `repo.git.checkout('HEAD', b=branch_name)`: a new branch at HEAD; the
\* index is kept.
Checkout ==
    /\ call.f = "VersionManager.run"
    /\ call.pc = "checkout"
    /\ call' = [call EXCEPT !.active_branch = call.branch_name, !.pc = "tag"]
    /\ UNCHANGED ret
    /\ UNCHANGED <<world, run, history, peer>>

\* The commit `git tag <name>` makes the new tag point at.
TagTarget(c) == c.HEAD

\* The commit that index.commit would make next.
ReleaseCommit(c) == [base |-> c.HEAD.base,
                     commits |-> Append(c.HEAD.commits, c.branch_name)]

\* `repo.git.tag(version_identifier)`: the tag is made at HEAD; git refuses
\* a name that is taken.
Tag ==
    /\ call.f = "VersionManager.run"
    /\ call.pc = "tag"
    /\ IF TagsNamed(call.tags, call.version_identifier) # {}
       THEN call' = [call EXCEPT !.pc = "raised", !.raised = "GitCommandError"]
       ELSE call' = [call EXCEPT
                        !.tags = @ \cup {<<call.version_identifier, TagTarget(call)>>},
                        !.pc = "commit"]
    /\ UNCHANGED ret
    /\ UNCHANGED <<world, run, history, peer>>

\* `repo.index.commit(message)`: the index becomes a commit on the active
\* branch.
Commit ==
    /\ call.f = "VersionManager.run"
    /\ call.pc = "commit"
    /\ call' = [call EXCEPT !.HEAD = ReleaseCommit(call), !.index = {},
                            !.pc = "push"]
    /\ UNCHANGED ret
    /\ UNCHANGED <<world, run, history, peer>>

\* `repo.remote().push(branch_name)`
PushRelease ==
    /\ call.f = "VersionManager.run"
    /\ call.pc = "push"
    /\ ret' = [ret EXCEPT !.branches = (call.branch_name :> call.HEAD) @@ @]
    /\ call' = [call EXCEPT !.pc = "push tags"]
    /\ UNCHANGED <<world, run, history, peer>>

\* `repo.remote().push(tags=True)`
PushTags ==
    /\ call.f = "VersionManager.run"
    /\ call.pc = "push tags"
    /\ ret' = [ret EXCEPT !.tags = @ \cup call.tags]
    /\ call' = [call EXCEPT !.pc = "request"]
    /\ UNCHANGED <<world, run, history, peer>>

\* `self.sm.open_merge_request(message, branch_name, ...)`
OpenMergeRequest ==
    /\ call.f = "VersionManager.run"
    /\ call.pc = "request"
    /\ ret' = [ret EXCEPT !.requests = @ \cup {call.branch_name}]
    /\ call' = [call EXCEPT !.pc = "done"]
    /\ UNCHANGED <<world, run, history, peer>>

NextVersion ==
    \/ CloneForRelease
    \/ _adjust_version_in_sources
    \/ Checkout
    \/ Tag
    \/ Commit
    \/ PushRelease
    \/ PushTags
    \/ OpenMergeRequest

SpecVersion == InitVersion /\ [][NextVersion]_vars

\* ---------------------------------------------------------------- claims

\* The run got through the whole loop and the branch reaper.
Completed == pc = "done" /\ flow = "loop" /\ raised = "none"

\* The branches of the deltas the run has classified.
Processed == {seen[i].branch : i \in 1..Len(seen)}

\* C1: a run that repeats a fully reconciled run, on the same default-branch
\* head, the same resolver output and the same open changes, opens no
\* change, pushes nothing and classifies every delta as Skipped
\* (should_update = False); when it completes it has classified them all.
Idempotency ==
    rerun /\ flow = "loop" =>
        /\ opened = << >>
        /\ pushed = {}
        /\ comments = << >>
        /\ \A i \in 1..Len(seen) :
               seen[i].outcome = "Skipped" /\ ~seen[i].should_update
        /\ Completed => Len(seen) = Len(outdated)

\* A second run that skipped two deltas.
IdempotencyWitness ==
    rerun /\ Completed /\ Len(seen) = 2

\* C2: _should_update returns (-1, True) when no open change has the branch
\* as source, (number, False) when exactly one has and its base SHA is the
\* current default-branch head, (number, True) when exactly one has and its
\* base SHA differs from the current default-branch head.
ChangeClassification ==
    \A i \in 1..Len(seen) :
        /\ Cardinality(seen[i].matches) = 0 =>
               seen[i].pr_number = -1 /\ seen[i].should_update
        /\ Cardinality(seen[i].matches) = 1 =>
               \A pr \in seen[i].matches :
                   /\ seen[i].pr_number = pr.number
                   /\ seen[i].should_update <=> (pr.base # head)

\* C3: the SHA _should_update compares a change's base SHA with is, for
\* every delta of the run, the default-branch head the run cloned.
ComparedWithClonedHead ==
    \A i \in 1..Len(seen) : seen[i].sha = cloned

\* C4: the commit pushed for a delta has the default-branch head as its
\* parent, and its branch holds no commit made for another delta.
BranchedFromDefaultHead ==
    \A p \in pushed :
        p.branch \in Processed =>
            p.commit = [base |-> cloned.base, commits |-> <<p.branch>>]

\* C5: when more than one open change has the branch of a delta as source,
\* _should_update raises InternalError, the run ends with it, and the run
\* pushes nothing to that branch, comments on none of its changes and opens
\* no change for it.
DuplicateChangeInvariant ==
    \A i \in 1..Len(seen) :
        Cardinality(seen[i].matches) > 1 =>
            /\ seen[i].outcome = "InternalError"
            /\ pc = "done" /\ raised = "InternalError" /\ i = Len(seen)
            /\ \A p \in pushed : p.branch # seen[i].branch
            /\ \A j \in 1..Len(opened) : opened[j].branch # seen[i].branch
            /\ \A pr \in seen[i].matches : Count(comments, pr.number) = 0
            /\ seen[i].name \notin DOMAIN result

\* A delta whose branch two open changes share.
DuplicateChangeWitness ==
    \E i \in 1..Len(seen) : Cardinality(seen[i].matches) = 2

\* C6: in a run where the replication of the old environment fails for a
\* delta, _relock_all is called exactly once and no later delta is
\* classified, reproduced or updated: the run ends with that delta.
RecoveryFallbackExactlyOnce ==
    /\ relocks <= 1
    /\ relocks = 1 <=> (\E i \in 1..Len(seen) : seen[i].outcome = "Relock")
    /\ \A i \in 1..Len(seen) :
           seen[i].outcome = "Relock" =>
               i = Len(seen) /\ pc = "done" /\ flow = "relock"

\* The replication failed for the first of two deltas.
RecoveryFallbackWitness ==
    /\ relocks = 1
    /\ Len(outdated) = 2
    /\ Len(seen) = 1
    /\ pc = "done"

\* C7: in a run that went through _delete_old_branches, of the remote
\* branches named with the prefix those of the run's deltas get no
\* delete_branch call and every other one gets exactly one, whether or not
\* the call fails; a branch without the prefix gets none.
ReaperSafety ==
    Completed =>
        /\ \A b \in listed :
               Count(deleted, b) =
                   IF startswith(b, Prefix) /\ b \notin Processed THEN 1 ELSE 0
        /\ Range(deleted) \subseteq listed
        /\ Processed \cap listed \subseteq DOMAIN branches
        /\ MASTER \in DOMAIN branches

\* The reaper spared the branch of a delta and deleted an old one.
ReaperSafetyWitness ==
    /\ Completed
    /\ Processed \cap listed # {}
    /\ deleted # << >>
    /\ "delete_branch" \in faults

\* C8: _get_all_outdated yields a delta for p exactly when p is a key of old
\* and p is missing from new or has another version there; a delta carries
\* the old version, the new version (None when p is missing from new) and
\* the dev flag of old.
DeltaCorrectness ==
    call.f = "_get_all_outdated" /\ call.done =>
        LET old == call.old
            new == call.new
            OldOf(p) == CHOOSE e \in Range(old) : e.name = p
        IN  /\ \A p \in Pkgs :
                   (\E i \in 1..Len(ret) : ret[i].name = p)
                       <=> /\ \E e \in Range(old) : e.name = p
                           /\ \/ p \notin DOMAIN new
                              \/ new[p].version # OldOf(p).version
            /\ \A i, j \in 1..Len(ret) : ret[i].name = ret[j].name => i = j
            /\ \A i \in 1..Len(ret) :
                   /\ ret[i].old_version = OldOf(ret[i].name).version
                   /\ ret[i].dev = OldOf(ret[i].name).dev
                   /\ ret[i].new_version =
                          IF ret[i].name \in DOMAIN new
                          THEN new[ret[i].name].version
                          ELSE None

\* A delta for a package that is missing from the new snapshot, next to a
\* package that only the new snapshot has.
DeltaCorrectnessWitness ==
    /\ call.f = "_get_all_outdated"
    /\ call.done
    /\ \E i \in 1..Len(ret) : ret[i].new_version = None
    /\ \E p \in DOMAIN call.new : \A e \in Range(call.old) : e.name # p

\* C9: for every name and all versions v1 # v2,
\* _construct_branch_name(name, v1) # _construct_branch_name(name, v2).
BranchDeterminism ==
    call.f = "_construct_branch_name" /\ call.done /\ call.v1 # call.v2 =>
        ret[1] # ret[2]

\* Two versions of which one is the beginning of the other.
BranchDeterminismWitness ==
    /\ call.f = "_construct_branch_name"
    /\ call.done
    /\ call.v1 # call.v2
    /\ startswith(call.v2, call.v1)

\* C10: a run in which exactly one direct dependency p is outdated, no open
\* change has its branch as source and no call fails ends with one Created
\* outcome, the remote branch kebechet-p-n, one new open change, on that
\* branch, and the result {p: (o, n, number of that change)}.
EndToEndSingleUpdate ==
    /\ pc = "done"
    /\ flow = "loop"
    /\ faults = {}
    /\ Len(outdated) = 1
    /\ Len(seen) = 1
    /\ seen[1].matches = {}
    => LET d == outdated[1]
           b == Prefix \o d.name \o <<"-">> \o d.new_version
       IN  /\ raised = "none"
           /\ seen[1].outcome = "Created"
           /\ seen[1].branch = b
           /\ b \in DOMAIN branches
           /\ \A p \in pushed : p.branch = b
           /\ Len(opened) = 1
           /\ opened[1].branch = b
           /\ list_pull_requests(b) = {pr \in pulls : pr.number = opened[1].number}
           /\ Cardinality(list_pull_requests(b)) = 1
           /\ DOMAIN result = {d.name}
           /\ result[d.name] = <<d.old_version, d.new_version, opened[1].number>>

\* The single update of a from 1 to 2.
EndToEndWitness ==
    /\ Completed
    /\ faults = {}
    /\ Len(outdated) = 1
    /\ outdated[1].name = A
    /\ seen[1].matches = {}
    /\ Len(opened) = 1

\* C11: UpdateManager.update never raises: whatever fails in a run, the run
\* ends by returning a mapping.
UpdateNeverRaises ==
    pc = "done" => raised = "none"

\* C12: the mapping a run returns has an entry package -> (old version, new
\* version, change number) for every delta the run created or rebased,
\* also when the run ends in the full relock.
ResultHoldsReconciled ==
    pc = "done" /\ raised = "none" =>
        \A i \in 1..Len(seen) :
            seen[i].outcome \in {"Created", "Rebased"} =>
                /\ seen[i].name \in DOMAIN result
                /\ result[seen[i].name][1] = outdated[i].old_version
                /\ result[seen[i].name][2] = outdated[i].new_version

\* C13: however the steps of two runs on one repository interleave, no
\* branch is the source of more than one open change.
NoDuplicatedChange ==
    \A p, q \in pulls : p.branch = q.branch => p.number = q.number

\* C14: whatever the runs so far and whatever failed in them, each sentinel
\* category has at most one open issue.
AtMostOneSentinel ==
    \A t \in SentinelTitles : issues[t] <= 1

\* A second run in which the failure of the first recurs: the issue the
\* first run opened is still the only one.
AtMostOneSentinelWitness ==
    /\ runs = 2
    /\ pc = "done"
    /\ flow = "no-management"
    /\ issues[_ISSUE_NO_DEPENDENCY_NAME] = 1

\* C15: a sentinel issue that is open when a run starts is closed by the
\* run unless its category's failure occurs in it, with either manifest
\* style and also when the initial lock succeeds: when a run in which
\* nothing failed has returned, no sentinel issue is open.
SentinelsClosedOnSuccess ==
    pc = "done" /\ raised = "none" /\ faults = {} /\ flow # "no-management" =>
        \A t \in SentinelTitles : issues[t] = 0

\* C16: a delta whose _create_update failed (in the resolver, in the push,
\* or when the change is opened or commented on) gets no entry in the
\* result and does not end the loop: the loop is past it, and a run that
\* has ended took up the delta after it.
PerDeltaFailureIsolation ==
    \A i \in 1..Len(seen) :
        seen[i].outcome = "Failed" =>
            /\ seen[i].name \notin DOMAIN result
            /\ idx > i
            /\ pc = "done" /\ i < Len(outdated) =>
                   Len(seen) > i \/ "list" \in faults

\* The update of the first delta failed and the second was created.
PerDeltaFailureWitness ==
    /\ Len(seen) = 2
    /\ seen[1].outcome = "Failed"
    /\ seen[2].outcome = "Created"
    /\ Completed

\* C17: a failure of the hosting service while one delta is processed, the
\* listing of the open changes by _should_update included, skips that delta
\* only: a run in which nothing else failed gets through the loop and the
\* branch reaper and returns.
TransportFailureSkipsDelta ==
    /\ pc = "done"
    /\ flow = "loop"
    /\ faults # {}
    /\ faults \subseteq {"list", "open"}
    /\ raised # "InternalError"
    => Completed

\* C18: a run that finds no lock file, in which the resolver and the
\* hosting service do not fail, proposes the initial lock on
\* kebechet-initial-lock: with no open change on it the lock is committed
\* and pushed and one change is opened; with one change whose base SHA is
\* not the cloned head the lock is committed, pushed with force and the
\* change commented on; with one up-to-date change nothing is done. The run
\* returns {} with no delta processed and no branch deleted, and one change
\* is open on the branch.
InitialLockFlow ==
    [][(/\ pc = "cloned"
        /\ pc' = "done"
        /\ flow' = "initial-lock"
        /\ faults' = {}
        /\ Cardinality(list_pull_requests(INITIAL_LOCK_BRANCH)) <= 1)
       => LET before == list_pull_requests(INITIAL_LOCK_BRANCH)
              after == {pr \in pulls' : pr.branch = INITIAL_LOCK_BRANCH}
          IN  /\ raised' = "none"
              /\ Cardinality(after) = 1
              /\ result' = EmptyMap
              /\ seen' = << >>
              /\ deleted' = << >>
              /\ DOMAIN branches \subseteq DOMAIN branches'
              /\ before = {} =>
                     /\ INITIAL_LOCK_BRANCH \in localBranches'
                     /\ INITIAL_LOCK_BRANCH \in DOMAIN branches'
                     /\ Len(opened') = 1
                     /\ opened'[1].branch = INITIAL_LOCK_BRANCH
                     /\ after = {pr \in pulls' : pr.number = opened'[1].number}
                     /\ comments' = << >>
              /\ \A pr \in before :
                     IF pr.base # HEAD
                     THEN /\ \E p \in pushed' :
                                 /\ p.branch = INITIAL_LOCK_BRANCH
                                 /\ p.force
                                 /\ branches'[INITIAL_LOCK_BRANCH] = p.commit
                          /\ comments' = <<pr.number>>
                          /\ opened' = << >>
                          /\ after = {[pr EXCEPT !.base = head]}
                     ELSE /\ pushed' = {}
                          /\ comments' = << >>
                          /\ opened' = << >>
                          /\ HEAD' = HEAD
                          /\ branches' = branches
                          /\ pulls' = pulls]_vars

\* C19: in a run whose initial lock fails in the resolver, the issue
\* "Failed to perform initial lock of software stack" is open afterwards,
\* opened by this run or, when it was open already, refreshed by it (the
\* call of open_issue_if_not_exist returns), and the resolver's error then
\* leaves the run; nothing is pushed, no change is opened and no delta is
\* processed in that run.
InitialLockFailure ==
    [][(/\ pc = "cloned"
        /\ pc' = "done"
        /\ flow' = "initial-lock"
        /\ "lock" \in faults')
       => /\ issues'[_ISSUE_INITIAL_LOCK_NAME] = 1
          /\ raised' = "PipenvError"
          /\ pushed' = {}
          /\ opened' = << >>
          /\ seen' = << >>
          /\ result' = EmptyMap
          /\ branches' = branches
          /\ pulls' = pulls]_vars

\* C20: in a run whose whole-environment update (_pipenv_update_all in
\* _do_update) fails in the resolver, the issue "Failed to update
\* dependencies to their latest version" is open afterwards, the run returns
\* {} without raising, no delta is processed, nothing is pushed, no branch is
\* deleted and no change is opened.
UpdateAllFailure ==
    [][(/\ pc = "cloned"
        /\ pc' = "done"
        /\ flow' = "update-failed")
       => /\ issues'[_ISSUE_UPDATE_ALL_NAME] = 1
          /\ raised' = "none"
          /\ result' = EmptyMap
          /\ seen' = << >>
          /\ pushed' = {}
          /\ deleted' = << >>
          /\ opened' = << >>
          /\ localBranches' = localBranches
          /\ branches' = branches
          /\ pulls' = pulls]_vars

ConvergenceAfterFailure ==
    pc = "done" /\ faults = {} /\ retry # {} =>
        \A b \in retry : Cardinality(list_pull_requests(b)) = 1

ConvergenceWitness ==
    /\ pc = "done"
    /\ faults = {}
    /\ Cardinality(retry) = 2
    /\ \A b \in retry : \E o \in Range(opened) : o.branch = b
    /\ \E b \in retry : b \in DOMAIN branches /\ \E p \in pushed : p.branch = b

\* C23: for a delta the run skipped (_should_update found exactly one open
\* change, whose base SHA is self.sha), the run creates no branch, pushes
\* nothing, comments on no change and opens none for it, the delta is not
\* in the result, and delete_branch is not called on its branch.
SkippedPerformsNoMutation ==
    \A i \in 1..Len(seen) :
        seen[i].outcome = "Skipped" =>
            /\ Cardinality(seen[i].matches) = 1
            /\ \A pr \in seen[i].matches : pr.base = seen[i].sha
            /\ seen[i].branch \notin localBranches
            /\ \A p \in pushed : p.branch # seen[i].branch
            /\ \A o \in Range(opened) : o.branch # seen[i].branch
            /\ seen[i].pr_number \notin Range(comments)
            /\ seen[i].name \notin DOMAIN result
            /\ seen[i].branch \notin Range(deleted)
            /\ pc = "done" /\ raised = "none" => seen[i].branch \in DOMAIN branches

SkippedWitness ==
    /\ Completed
    /\ Len(seen) = 2
    /\ seen[1].outcome = "Skipped"
    /\ seen[2].outcome = "Created"
    /\ deleted # << >>

\* C24: a step of the loop that rebases a delta (one open change on its
\* branch, with a base SHA other than self.sha) force-pushes the branch,
\* adds exactly one comment, to that change, opens no change, enters the
\* number of that change in the result, and leaves that change the only
\* open one on the branch.
RebasedKeepsChange ==
    [][(/\ pc = "loop"
        /\ Len(seen') = Len(seen) + 1
        /\ seen'[Len(seen')].outcome = "Rebased")
       => LET e == seen'[Len(seen')]
              d == outdated[idx]
          IN  /\ e.matches = list_pull_requests(e.branch)
              /\ \E pr \in e.matches :
                     /\ e.matches = {pr}
                     /\ pr.base # sha
                     /\ e.pr_number = pr.number
                     /\ comments' = Append(comments, pr.number)
                     /\ {q.number : q \in {r \in pulls' : r.branch = e.branch}} = {pr.number}
              /\ \E p \in pushed' \ pushed :
                     /\ pushed' = pushed \cup {p}
                     /\ p.branch = e.branch
                     /\ p.force
                     /\ branches'[e.branch] = p.commit
              /\ opened' = opened
              /\ nextNumber' = nextNumber
              /\ {q.number : q \in pulls'} = {q.number : q \in pulls}
              /\ result'[d.name] = <<d.old_version, d.new_version, e.pr_number>>]_vars

RebasedWitness ==
    /\ Len(seen) >= 1
    /\ seen[Len(seen)].outcome = "Rebased"
    /\ comments = <<seen[Len(seen)].pr_number>>
    /\ \E p \in pushed : p.branch = seen[Len(seen)].branch /\ p.force

\* C25: when the loop is about to classify a delta, or has classified the
\* last, the clone holds no uncommitted change that the resolver made for
\* a delta whose _create_update was called earlier in the run, whether that
\* call returned or raised.
WorkingTreeReset == pc = "loop" => tree = {}

\* C26: _add_refresh_comment returns a comment exactly when neither the body
\* of the issue nor any of its comments contains self.sha; so over the
\* failing runs that report to an issue, for every SHA at most one text of
\* the issue (its body or a comment) contains it.
RefreshOncePerSha ==
    [][(call.f = "_add_refresh_comment" /\ call'.calls = call.calls + 1) =>
          LET texts(issue) == <<issue.body>> \o issue.comments
              mentions(issue, n) ==
                  {i \in 1..Len(texts(issue)) : In(ShaOf(n), texts(issue)[i])}
          IN  /\ ret' # None <=> mentions(call.issue, call.sha) = {}
              /\ ret' # None => In(ShaOf(call.sha), ret')
              /\ \A n \in 1..MaxSha : Cardinality(mentions(call'.issue, n)) <= 1]_vars

RefreshWitness ==
    /\ call.f = "_add_refresh_comment"
    /\ call.calls = 4
    /\ call.issue.body = ISSUE_BODY(ShaOf(1))
    /\ call.issue.comments = << <<"u">>, ISSUE_COMMENT_UPDATE_ALL(ShaOf(2)) >>
    /\ call.sha = 2
    /\ ret = None

\* C27: a run that ends in the initial-lock flow, in the failure of the
\* whole-environment update or in the relock flow never lists the remote
\* branches and never calls delete_branch.
NoReapingOnAbort ==
    pc = "done" /\ flow \in {"initial-lock", "update-failed", "relock"} =>
        /\ deleted = << >>
        /\ listed = {}

NoReapingWitness ==
    /\ pc = "done"
    /\ flow = "relock"
    /\ raised = "none"
    /\ Len(seen) = 2
    /\ _delete_old_branches(outdated) # {}

\* C28: the deltas of a run are computed, and taken up by the loop, in
\* ascending order of their package names, whatever the order of the
\* packages in Pipfile or requirements.txt.
DeltasInNameOrder ==
    LET Alphabet == <<"a", "b">>
        pos(c) == CHOOSE k \in 1..Len(Alphabet) : Alphabet[k] = c
        less(x, y) == pos(x[1]) < pos(y[1])
    IN  /\ \A i, j \in 1..Len(outdated) :
               i < j => less(outdated[i].name, outdated[j].name)
        /\ \A i, j \in 1..Len(seen) :
               i < j => less(seen[i].name, seen[j].name)

\* C29: the keys the four snapshot readers return are lower-case, and a
\* package pinned in requirements.txt and listed in requirements.in, in
\* whatever case either file writes its name, is among the direct
\* dependencies the deltas are computed from.
ReadersLowerCase ==
    call.f = "readers" /\ call.done =>
        LET listed_ == {lower(BeforeVersionDelimiter(call.in[i])) :
                           i \in {j \in 1..Len(call.in) : call.in[j][1] # "#"}}
            pinned(line) == /\ line # << >>
                            /\ line[1] \notin {"#", "-", " "}
                            /\ Len(SplitOnce(line, <<"=", "=">>)) = 2
        IN  /\ \A n \in Range(ret.pipfile.default) \cup Range(ret.pipfile.develop) :
                   n = lower(n)
            /\ \A e \in Range(ret.lock) : e.name = lower(e.name)
            /\ \A d \in ret.direct : d = lower(d)
            /\ \A e \in Range(ret.txt.result) : e.name = lower(e.name)
            /\ ret.txt.raised = "none" =>
                   \A i \in 1..Len(call.txt) :
                       LET name == SplitOnce(call.txt[i], <<"=", "=">>)[1]
                       IN  pinned(call.txt[i]) /\ lower(name) \in listed_ =>
                               \E e \in Range(ret.old) : e.name = lower(name)

\* C30: _get_requirements_txt_dependencies passes over the comment lines and
\* the blank lines of requirements.txt, raises DependencyManagementError
\* only when some other line has no "==" to split it at, and otherwise
\* returns an entry name -> version for every `name==version` line, and no
\* other entry.
RequirementsTxtReading ==
    call.f = "readers" /\ call.done =>
        LET passed(line) == strip(line) = << >> \/ startswith(strip(line), <<"#">>)
            pins == {i \in 1..Len(call.txt) :
                        ~passed(call.txt[i]) /\ Find(call.txt[i], <<"=", "=">>) > 0}
            name(i) == SplitOnce(call.txt[i], <<"=", "=">>)[1]
        IN  /\ ret.txt.raised \in {"none", "DependencyManagementError"}
            /\ ret.txt.raised # "none" =>
                   \E i \in 1..Len(call.txt) :
                       ~passed(call.txt[i]) /\ Find(call.txt[i], <<"=", "=">>) = 0
            /\ ret.txt.raised = "none" =>
                   {e.name : e \in Range(ret.txt.result)} = {name(i) : i \in pins}

\* C31: two deltas that differ in the package name or in the new version
\* have different branch names, package names with the separator '-' in
\* them included.
BranchNamesUnique ==
    call.f = "branch names" /\ call.done =>
        (<<call.name1, call.version1>> # <<call.name2, call.version2>>
            => ret[1] # ret[2])

\* The managers a configuration asks to run: the registered ones of the
\* entries that have their keys and a usable service URL.
Due ==
    {<<i, j>> \in (1..Len(call.repositories)) \X (1..MaxManagers + 1) :
        /\ call.repositories[i].slug
        /\ ~InvalidServiceUrl(call.repositories[i].service_url)
        /\ j <= Len(call.repositories[i].managers)
        /\ HasManager(call.repositories[i].managers[j])}

\* Position a comes before position b in the configuration file.
Before(a, b) == a[1] < b[1] \/ (a[1] = b[1] /\ a[2] < b[2])

\* C32: whatever managers raised from their construction or their run, when
\* the configuration's run ends every manager the configuration asks for was
\* run, once, in the order of the configuration.
ManagerFailureIsolation ==
    call.f = "_Config.run" /\ call.pc = "done" =>
        /\ Range(ret) = Due
        /\ \A a, b \in 1..Len(ret) : a < b => Before(ret[a], ret[b])

\* A manager raised, and a later manager of its entry and a manager of a
\* later entry were run after it.
IsolationWitness ==
    /\ call.f = "_Config.run"
    /\ call.pc = "done"
    /\ call.failed # None
    /\ \E a, b \in 1..Len(ret) :
        /\ ret[a][1] = call.failed[1] /\ ret[a][2] > call.failed[2]
        /\ ret[b][1] > call.failed[1]

\* C33: the tag pushed for the version of a release request whose version
\* identifier was adjusted in exactly one file points at the release commit,
\* the head of the pushed branch 'v<version>', not at the commit before it.
ReleaseTagOrdering ==
    /\ call.f = "VersionManager.run"
    /\ call.pc \in {"request", "done"}
    /\ Cardinality(call.versioned) = 1
    => /\ call.branch_name \in DOMAIN ret.branches
       /\ \A t \in TagsNamed(ret.tags, call.version_identifier) :
            t[2] = ret.branches[call.branch_name]

====
